---- MODULE Spec2Model ----
(***************************************************************************)
(* Template-Based Habit Scheduler: the scheduling core (utils/scheduling), *)
(* the time-range calculator (utils/time), configuration validation        *)
(* (config/loader), the Notion client wrapper and the HabitManager run.    *)
(*                                                                         *)
(* Time is counted in minutes from 2024-01-15T00:00Z, a Monday; a calendar *)
(* date is the number of days from that date, and an ISO string is the     *)
(* record of the UTC day, hour and minute that toISOString would print.    *)
(* Strings that the code inspects character by character (times of day,    *)
(* weekday tokens) are sequences of one-character strings.                 *)
(***************************************************************************)
EXTENDS Integers, Sequences, FiniteSets, TLC

(***************************************************************************)
(* Bounds                                                                  *)
(***************************************************************************)
MaxRefDay == 6
MaxCalcDay == 1
MaxFreqLen == 2
MaxHabits == 2
MaxTicks == 1

MinutesPerDay == 1440

(***************************************************************************)
(* Dates and timezones                                                     *)
(***************************************************************************)
\* Europe/Berlin switches from +01:00 to +02:00 at 2024-03-31T01:00Z (day 76)
BerlinDstDay == 76
\* America/New_York switches from -05:00 to -04:00 at 2024-03-10T07:00Z (day 55)
NewYorkDstDay == 55

ValidTimezones == {"UTC", "Asia/Tokyo", "America/New_York", "Europe/Berlin"}
Timezones == ValidTimezones \cup {"Invalid/Timezone"}

\* The signed UTC offset, in minutes, in force in a timezone at an instant.
TzOffset(tz, t) ==
  CASE tz = "UTC" -> 0
    [] tz = "Asia/Tokyo" -> 540
    [] tz = "America/New_York" ->
         IF t < NewYorkDstDay * MinutesPerDay + 420 THEN -300 ELSE -240
    [] tz = "Europe/Berlin" ->
         IF t < BerlinDstDay * MinutesPerDay + 60 THEN 60 ELSE 120

\* The wall clock of a timezone at an instant, as minutes from the epoch.
WallClock(t, tz) == t + TzOffset(tz, t)
\* Calendar date (day number) and minute of the day shown by that wall clock.
LocalDay(t, tz) == WallClock(t, tz) \div MinutesPerDay
LocalMinute(t, tz) == WallClock(t, tz) % MinutesPerDay

\* Date.prototype.toISOString: the UTC day, hour and minute of an instant.
toISOString(t) ==
  [day |-> t \div MinutesPerDay,
   hh |-> (t % MinutesPerDay) \div 60,
   mm |-> t % 60]
\* new Date(isoString): the instant an ISO string denotes.
IsoInstant(iso) == iso.day * MinutesPerDay + iso.hh * 60 + iso.mm

(***************************************************************************)
(* utils/time.ts                                                           *)
(***************************************************************************)
Digits == {"0", "1", "2", "3", "4", "5", "6", "7", "8", "9"}
DigitVal(c) ==
  CASE c = "0" -> 0 [] c = "1" -> 1 [] c = "2" -> 2 [] c = "3" -> 3
    [] c = "4" -> 4 [] c = "5" -> 5 [] c = "6" -> 6 [] c = "7" -> 7
    [] c = "8" -> 8 [] c = "9" -> 9

\* /^([0-1]?[0-9]|2[0-3]):([0-5][0-9])$/
TimeRegexMatches(s) ==
  \/ /\ Len(s) = 5
     /\ \/ s[1] \in {"0", "1"} /\ s[2] \in Digits
        \/ s[1] = "2" /\ s[2] \in {"0", "1", "2", "3"}
     /\ s[3] = ":"
     /\ s[4] \in {"0", "1", "2", "3", "4", "5"}
     /\ s[5] \in Digits
  \/ /\ Len(s) = 4
     /\ s[1] \in Digits
     /\ s[2] = ":"
     /\ s[3] \in {"0", "1", "2", "3", "4", "5"}
     /\ s[4] \in Digits

\* Variant: the hour pattern is 2[0-9] instead of 2[0-3].
parseTimeString_Hours29(s) ==
  LET matches ==
        \/ /\ Len(s) = 5
           /\ s[1] \in {"0", "1", "2"} /\ s[2] \in Digits
           /\ s[3] = ":"
           /\ s[4] \in {"0", "1", "2", "3", "4", "5"}
           /\ s[5] \in Digits
        \/ /\ Len(s) = 4
           /\ s[1] \in Digits
           /\ s[2] = ":"
           /\ s[3] \in {"0", "1", "2", "3", "4", "5"}
           /\ s[4] \in Digits
  IN  IF ~matches
      THEN [kind |-> "throw", error |-> "Invalid time format"]
      ELSE IF Len(s) = 5
           THEN [kind |-> "ok",
                 hours |-> DigitVal(s[1]) * 10 + DigitVal(s[2]),
                 minutes |-> DigitVal(s[4]) * 10 + DigitVal(s[5])]
           ELSE [kind |-> "ok",
                 hours |-> DigitVal(s[1]),
                 minutes |-> DigitVal(s[3]) * 10 + DigitVal(s[4])]

\* parseTimeString: the hours and minutes of a matching string, or a throw.
parseTimeString(s) ==
  IF ~TimeRegexMatches(s)
  THEN [kind |-> "throw", error |-> "Invalid time format"]
  ELSE IF Len(s) = 5
       THEN [kind |-> "ok",
             hours |-> DigitVal(s[1]) * 10 + DigitVal(s[2]),
             minutes |-> DigitVal(s[4]) * 10 + DigitVal(s[5])]
       ELSE [kind |-> "ok",
             hours |-> DigitVal(s[1]),
             minutes |-> DigitVal(s[3]) * 10 + DigitVal(s[4])]

\* The offset createDateTimeInTimezone derives: the hour and minute that the
\* timezone's wall clock shows at UTC midnight of the resolved date.
ComputedOffset(date, timezone) ==
  LET day == LocalDay(date, timezone)
      midnightUTC == day * MinutesPerDay
      tzHour == LocalMinute(midnightUTC, timezone) \div 60
      tzMin == LocalMinute(midnightUTC, timezone) % 60
  IN  tzHour * 60 + tzMin

\* createDateTimeInTimezone: the instant returned for a date, a parsed time
\* and a (resolvable) timezone.
createDateTimeInTimezone(date, time, timezone) ==
  LET day == LocalDay(date, timezone)
      offsetMin == ComputedOffset(date, timezone)
      targetTime == day * MinutesPerDay + time.hours * 60 + time.minutes
  IN  targetTime - offsetMin

\* String comparison (UTF-16 code units) of two time strings, s < t.
CharCode(c) == IF c \in Digits THEN 48 + DigitVal(c) ELSE IF c = ":" THEN 58 ELSE 100
RECURSIVE LexLess(_, _)
LexLess(s, t) ==
  IF Len(t) = 0 THEN FALSE
  ELSE IF Len(s) = 0 THEN TRUE
  ELSE IF CharCode(Head(s)) # CharCode(Head(t))
       THEN CharCode(Head(s)) < CharCode(Head(t))
       ELSE LexLess(Tail(s), Tail(t))

\* Variant: a range that crosses midnight is made by moving the start back.
TimeRangeOf_ShiftStart(startStr, endStr, timezone, targetDate) ==
  LET startTime == parseTimeString(startStr)
      endTime == parseTimeString(endStr)
  IN  IF startTime.kind = "throw" THEN [kind |-> "throw", error |-> startTime.error]
      ELSE IF endTime.kind = "throw" THEN [kind |-> "throw", error |-> endTime.error]
      ELSE IF timezone \notin ValidTimezones
           THEN [kind |-> "throw", error |-> "Invalid time zone specified"]
      ELSE LET startDateTime == createDateTimeInTimezone(targetDate, startTime, timezone)
               endDateTime == createDateTimeInTimezone(targetDate, endTime, timezone)
               startShifted == IF endDateTime <= startDateTime
                               THEN startDateTime - MinutesPerDay
                               ELSE startDateTime
           IN  [kind |-> "ok",
                start |-> toISOString(startShifted),
                end |-> toISOString(endDateTime)]

\* Variant: the end is moved only when it is strictly before the start.
TimeRangeOf_StrictLess(startStr, endStr, timezone, targetDate) ==
  LET startTime == parseTimeString(startStr)
      endTime == parseTimeString(endStr)
  IN  IF startTime.kind = "throw" THEN [kind |-> "throw", error |-> startTime.error]
      ELSE IF endTime.kind = "throw" THEN [kind |-> "throw", error |-> endTime.error]
      ELSE IF timezone \notin ValidTimezones
           THEN [kind |-> "throw", error |-> "Invalid time zone specified"]
      ELSE LET startDateTime == createDateTimeInTimezone(targetDate, startTime, timezone)
               endDateTime == createDateTimeInTimezone(targetDate, endTime, timezone)
               endShifted == IF endDateTime < startDateTime
                             THEN endDateTime + MinutesPerDay
                             ELSE endDateTime
           IN  [kind |-> "ok",
                start |-> toISOString(startDateTime),
                end |-> toISOString(endShifted)]

\* Variant: the midnight test compares the configured strings, not the dates.
TimeRangeOf_LexCompare(startStr, endStr, timezone, targetDate) ==
  LET startTime == parseTimeString(startStr)
      endTime == parseTimeString(endStr)
  IN  IF startTime.kind = "throw" THEN [kind |-> "throw", error |-> startTime.error]
      ELSE IF endTime.kind = "throw" THEN [kind |-> "throw", error |-> endTime.error]
      ELSE IF timezone \notin ValidTimezones
           THEN [kind |-> "throw", error |-> "Invalid time zone specified"]
      ELSE LET startDateTime == createDateTimeInTimezone(targetDate, startTime, timezone)
               endDateTime == createDateTimeInTimezone(targetDate, endTime, timezone)
               endShifted == IF LexLess(endStr, startStr) \/ endStr = startStr
                             THEN endDateTime + MinutesPerDay
                             ELSE endDateTime
           IN  [kind |-> "ok",
                start |-> toISOString(startDateTime),
                end |-> toISOString(endShifted)]

\* The body shared by calculateTimeRange and calculateTimeRangeFromParams.
TimeRangeOf(startStr, endStr, timezone, targetDate) ==
  LET startTime == parseTimeString(startStr)
      endTime == parseTimeString(endStr)
  IN  IF startTime.kind = "throw" THEN [kind |-> "throw", error |-> startTime.error]
      ELSE IF endTime.kind = "throw" THEN [kind |-> "throw", error |-> endTime.error]
      ELSE IF timezone \notin ValidTimezones
           THEN [kind |-> "throw", error |-> "Invalid time zone specified"]
      ELSE LET startDateTime == createDateTimeInTimezone(targetDate, startTime, timezone)
               endDateTime == createDateTimeInTimezone(targetDate, endTime, timezone)
               endShifted == IF endDateTime <= startDateTime
                             THEN endDateTime + MinutesPerDay
                             ELSE endDateTime
           IN  [kind |-> "ok",
                start |-> toISOString(startDateTime),
                end |-> toISOString(endShifted)]

\* Variant: the reference date is always read from the system clock.
TargetDate_AlwaysNow(date, clock) == clock

\* date || new Date(): date is <<d>> when the caller passes a Date and <<>>
\* when the argument is left out; clock is what new Date() gives.
TargetDate(date, clock) == IF date = <<>> THEN clock ELSE date[1]

calculateTimeRange(habit, timezone, date, clock) ==
  TimeRangeOf(habit.startTime, habit.endTime, timezone, TargetDate(date, clock))

calculateTimeRangeFromParams(params) ==
  TimeRangeOf(params.startTime, params.endTime, params.timezone, params.date)

(***************************************************************************)
(* Local calendar arithmetic of the JavaScript Date object                 *)
(***************************************************************************)
ZoneOffsets(tz) ==
  CASE tz = "UTC" -> {0}
    [] tz = "Asia/Tokyo" -> {540}
    [] tz = "America/New_York" -> {-300, -240}
    [] tz = "Europe/Berlin" -> {60, 120}

\* The instant at which a timezone's wall clock shows w; a wall-clock time
\* skipped by a transition resolves with the offset in force before it.
FromWallClock(w, tz) ==
  LET cands == {w - o : o \in {x \in ZoneOffsets(tz) : WallClock(w - x, tz) = w}}
  IN  IF cands # {}
      THEN CHOOSE c \in cands : \A c2 \in cands : c <= c2
      ELSE w - (CHOOSE o \in ZoneOffsets(tz) : \A o2 \in ZoneOffsets(tz) : o <= o2)

\* d.setDate(d.getDate() + n) in the local timezone tz of the process.
AddLocalDays(date, n, tz) ==
  FromWallClock(WallClock(date, tz) + n * MinutesPerDay, tz)

(***************************************************************************)
(* utils/scheduling.ts                                                     *)
(***************************************************************************)
monday == <<"m", "o", "n", "d", "a", "y">>
tuesday == <<"t", "u", "e", "s", "d", "a", "y">>
wednesday == <<"w", "e", "d", "n", "e", "s", "d", "a", "y">>
thursday == <<"t", "h", "u", "r", "s", "d", "a", "y">>
friday == <<"f", "r", "i", "d", "a", "y">>
saturday == <<"s", "a", "t", "u", "r", "d", "a", "y">>
sunday == <<"s", "u", "n", "d", "a", "y">>

VALID_WEEKDAYS == <<monday, tuesday, wednesday, thursday, friday, saturday, sunday>>

UpperCase == <<"A", "B", "C", "D", "E", "F", "G", "H", "I", "J", "K", "L", "M",
               "N", "O", "P", "Q", "R", "S", "T", "U", "V", "W", "X", "Y", "Z">>
LowerCase == <<"a", "b", "c", "d", "e", "f", "g", "h", "i", "j", "k", "l", "m",
               "n", "o", "p", "q", "r", "s", "t", "u", "v", "w", "x", "y", "z">>

\* String.prototype.toLowerCase
toLowerCase(s) ==
  [i \in 1..Len(s) |->
     IF \E k \in 1..26 : UpperCase[k] = s[i]
     THEN LowerCase[CHOOSE k \in 1..26 : UpperCase[k] = s[i]]
     ELSE s[i]]

\* String.prototype.trim
trim(s) ==
  LET keep == {i \in 1..Len(s) : s[i] # " "}
  IN  IF keep = {} THEN <<>>
      ELSE LET lo == CHOOSE i \in keep : \A j \in keep : i <= j
               hi == CHOOSE i \in keep : \A j \in keep : j <= i
           IN  SubSeq(s, lo, hi)

\* Array.prototype.includes
includes(arr, x) == \E i \in 1..Len(arr) : arr[i] = x

\* toLocaleDateString('en-US', {weekday: 'long'}) of a local calendar date
LongWeekday == <<<<"M", "o", "n", "d", "a", "y">>,
                 <<"T", "u", "e", "s", "d", "a", "y">>,
                 <<"W", "e", "d", "n", "e", "s", "d", "a", "y">>,
                 <<"T", "h", "u", "r", "s", "d", "a", "y">>,
                 <<"F", "r", "i", "d", "a", "y">>,
                 <<"S", "a", "t", "u", "r", "d", "a", "y">>,
                 <<"S", "u", "n", "d", "a", "y">> >>

getDayName(date, tz) == toLowerCase(LongWeekday[(LocalDay(date, tz) % 7) + 1])

\* Variant: the weekday tested is that of the date itself, not of the next day.
isDueToday_NoShift(habit, date, tz) ==
  IF ~habit.enabled THEN FALSE
  ELSE includes(habit.frequency, getDayName(date, tz))

\* Variant: the enabled flag is not consulted.
isDueToday_IgnoreEnabled(habit, date, tz) ==
  LET tomorrow == AddLocalDays(date, 1, tz)
      tomorrowDayName == getDayName(tomorrow, tz)
  IN  includes(habit.frequency, tomorrowDayName)

isDueToday(habit, date, tz) ==
  IF ~habit.enabled THEN FALSE
  ELSE LET tomorrow == AddLocalDays(date, 1, tz)
           tomorrowDayName == getDayName(tomorrow, tz)
       IN  includes(habit.frequency, tomorrowDayName)

\* Variant: a habit that occurs twice in the list is returned once.
getHabitsDueToday_Distinct(habits, date, tz) ==
  LET due == {i \in 1..Len(habits) :
                /\ isDueToday(habits[i], date, tz)
                /\ \A j \in 1..(i - 1) : habits[j] # habits[i]}
      pos(i) == Cardinality({j \in due : j <= i})
  IN  [k \in 1..Cardinality(due) |-> habits[CHOOSE i \in due : pos(i) = k]]

getHabitsDueToday(habits, date, tz) ==
  SelectSeq(habits, LAMBDA habit : isDueToday(habit, date, tz))

\* Variant: the scan looks at six days.
maxDaysToCheck_Six == 7 - 1

maxDaysToCheck == 7

\* Variant: the scan starts at fromDate itself.
getNextScheduledDate_FromToday(habit, fromDate, tz) ==
  IF ~habit.enabled THEN [kind |-> "null"]
  ELSE LET hits == {i \in 0..maxDaysToCheck :
                      isDueToday(habit, AddLocalDays(fromDate, i, tz), tz)}
       IN  IF hits = {} THEN [kind |-> "null"]
           ELSE LET i == CHOOSE k \in hits : \A j \in hits : k <= j
                IN  [kind |-> "date", date |-> AddLocalDays(fromDate, i, tz)]

getNextScheduledDate(habit, fromDate, tz) ==
  IF ~habit.enabled THEN [kind |-> "null"]
  ELSE LET hits == {i \in 1..maxDaysToCheck :
                      isDueToday(habit, AddLocalDays(fromDate, i, tz), tz)}
       IN  IF hits = {} THEN [kind |-> "null"]
           ELSE LET i == CHOOSE k \in hits : \A j \in hits : k <= j
                IN  [kind |-> "date", date |-> AddLocalDays(fromDate, i, tz)]

getScheduledWeekdays(habit) ==
  SelectSeq(habit.frequency, LAMBDA day : includes(VALID_WEEKDAYS, day))

isDaily(habit) ==
  LET scheduledDays == getScheduledWeekdays(habit)
  IN  Len(scheduledDays) = 7

\* Variant: the number of scheduled days is not tested.
isWeekdaysOnly_NoLengthTest(habit) ==
  LET scheduledDays == getScheduledWeekdays(habit)
      weekdays == <<monday, tuesday, wednesday, thursday, friday>>
  IN  \A i \in 1..Len(weekdays) : includes(scheduledDays, weekdays[i])

isWeekdaysOnly(habit) ==
  LET scheduledDays == getScheduledWeekdays(habit)
      weekdays == <<monday, tuesday, wednesday, thursday, friday>>
  IN  /\ Len(scheduledDays) = 5
      /\ \A i \in 1..Len(weekdays) : includes(scheduledDays, weekdays[i])

isWeekendsOnly(habit) ==
  LET scheduledDays == getScheduledWeekdays(habit)
      weekends == <<saturday, sunday>>
  IN  /\ Len(scheduledDays) = 2
      /\ \A i \in 1..Len(weekends) : includes(scheduledDays, weekends[i])

(***************************************************************************)
(* config/loader.ts: validation of one habit entry whose fields have the   *)
(* JSON types of HabitConfig                                               *)
(***************************************************************************)
\* validateFrequency: the error and warning lists it appends.
validateFrequency(frequency) ==
  IF Len(frequency) = 0
  THEN [errors |-> <<"frequency array cannot be empty">>, warnings |-> <<>>]
  ELSE LET normalizedDay(i) == trim(toLowerCase(frequency[i]))
           invalidDays == {i \in 1..Len(frequency) :
                             ~includes(VALID_WEEKDAYS, normalizedDay(i))}
           duplicates == {i \in 1..Len(frequency) :
                            \E j \in 1..(i - 1) : normalizedDay(j) = normalizedDay(i)}
       IN  [errors |-> IF invalidDays # {}
                       THEN <<"Invalid weekdays in frequency">> ELSE <<>>,
            warnings |-> IF duplicates # {}
                         THEN <<"Duplicate weekdays in frequency">> ELSE <<>>]

\* TIME_FORMAT_REGEX = /^([0-1]?[0-9]|2[0-3]):[0-5][0-9]$/
TIME_FORMAT_REGEX(s) ==
  \/ /\ Len(s) = 5
     /\ \/ s[1] \in {"0", "1"} /\ s[2] \in Digits
        \/ s[1] = "2" /\ s[2] \in {"0", "1", "2", "3"}
     /\ s[3] = ":"
     /\ s[4] \in {"0", "1", "2", "3", "4", "5"}
     /\ s[5] \in Digits
  \/ /\ Len(s) = 4
     /\ s[1] \in Digits
     /\ s[2] = ":"
     /\ s[3] \in {"0", "1", "2", "3", "4", "5"}
     /\ s[4] \in Digits

\* validateTimeFormat
validateTimeFormat(time, fieldName) ==
  IF ~TIME_FORMAT_REGEX(time) THEN <<fieldName>> ELSE <<>>

\* Variant: an end that is not after the start is rejected.
validateTimeRange_RejectBackward(startTime, endTime) ==
  LET hour(t) == IF Len(t) = 5 THEN DigitVal(t[1]) * 10 + DigitVal(t[2])
                 ELSE DigitVal(t[1])
      min(t) == DigitVal(t[Len(t) - 1]) * 10 + DigitVal(t[Len(t)])
      startMinutes == hour(startTime) * 60 + min(startTime)
      endMinutes == hour(endTime) * 60 + min(endTime)
  IN  IF endMinutes <= startMinutes
      THEN <<"startTime and endTime cannot be the same">> ELSE <<>>

\* validateTimeRange, called only once both formats have passed
validateTimeRange(startTime, endTime) ==
  LET \* time.split(':').map(Number)
      hour(t) == IF Len(t) = 5 THEN DigitVal(t[1]) * 10 + DigitVal(t[2])
                 ELSE DigitVal(t[1])
      min(t) == DigitVal(t[Len(t) - 1]) * 10 + DigitVal(t[Len(t)])
      startMinutes == hour(startTime) * 60 + min(startTime)
      endMinutes == hour(endTime) * 60 + min(endTime)
  IN  IF startMinutes = endMinutes
      THEN <<"startTime and endTime cannot be the same">> ELSE <<>>

validateSingleHabit(habit) ==
  LET basic == (IF Len(trim(habit.name)) = 0 THEN <<"name cannot be empty">> ELSE <<>>)
               \o (IF Len(trim(habit.templateId)) = 0
                   THEN <<"templateId cannot be empty">> ELSE <<>>)
               \o validateFrequency(habit.frequency).errors
               \o validateTimeFormat(habit.startTime, "startTime")
               \o validateTimeFormat(habit.endTime, "endTime")
      errors == IF Len(basic) > 0 THEN basic
                ELSE validateTimeRange(habit.startTime, habit.endTime)
  IN  [valid |-> Len(errors) = 0,
       errors |-> errors,
       warnings |-> validateFrequency(habit.frequency).warnings]

(***************************************************************************)
(* The Date objects the core functions work on.  objs is the sequence of   *)
(* the Date objects alive, an object is named by its position; objs[1] is  *)
(* the Date the caller passed.  Each operator gives objs as the function   *)
(* leaves it.                                                              *)
(***************************************************************************)
\* Variant: no copy is made, the new name refers to the object itself.
NewDate_SameObject(objs, ref) == [objs |-> objs, ref |-> ref]

\* new Date(d): a new object holding the instant of d
NewDate(objs, ref) == [objs |-> Append(objs, objs[ref]), ref |-> Len(objs) + 1]

\* d.setDate(d.getDate() + n)
setDate(objs, ref, n, tz) == [objs EXCEPT ![ref] = AddLocalDays(objs[ref], n, tz)]

\* isDueToday: tomorrow = new Date(targetDate); tomorrow.setDate(..)
isDueTodayObjects(habit, objs, dateRef, tz) ==
  IF ~habit.enabled THEN objs
  ELSE LET tomorrow == NewDate(objs, dateRef)
       IN  setDate(tomorrow.objs, tomorrow.ref, 1, tz)

\* getHabitsDueToday: isDueToday(habit, targetDate) for each habit in turn
RECURSIVE getHabitsDueTodayObjects(_, _, _, _)
getHabitsDueTodayObjects(habits, objs, dateRef, tz) ==
  IF habits = <<>> THEN objs
  ELSE getHabitsDueTodayObjects(
         Tail(habits), isDueTodayObjects(Head(habits), objs, dateRef, tz),
         dateRef, tz)

\* getNextScheduledDate: pass i of the for-loop and the passes after it
RECURSIVE ScanObjects(_, _, _, _, _)
ScanObjects(habit, objs, startRef, i, tz) ==
  IF i > maxDaysToCheck THEN objs
  ELSE LET checkDate == NewDate(objs, startRef)
           moved == setDate(checkDate.objs, checkDate.ref, i, tz)
           after == isDueTodayObjects(habit, moved, checkDate.ref, tz)
       IN  IF isDueToday(habit, moved[checkDate.ref], tz) THEN after
           ELSE ScanObjects(habit, after, startRef, i + 1, tz)

getNextScheduledDateObjects(habit, objs, startRef, tz) ==
  IF ~habit.enabled THEN objs
  ELSE ScanObjects(habit, objs, startRef, 1, tz)

\* calculateTimeRange / calculateTimeRangeFromParams: targetDate is the Date
\* passed; createDateTimeInTimezone only reads it and returns new objects;
\* endDateTime.setUTCDate(..) writes the second of them.
TimeRangeObjects(startStr, endStr, timezone, objs, dateRef) ==
  LET startTime == parseTimeString(startStr)
      endTime == parseTimeString(endStr)
  IN  IF startTime.kind = "throw" \/ endTime.kind = "throw"
         \/ timezone \notin ValidTimezones
      THEN objs
      ELSE LET startDateTime == createDateTimeInTimezone(objs[dateRef], startTime,
                                                         timezone)
               endDateTime == createDateTimeInTimezone(objs[dateRef], endTime,
                                                       timezone)
               made == objs \o <<startDateTime, endDateTime>>
           IN  IF endDateTime <= startDateTime
               THEN [made EXCEPT ![Len(made)] = endDateTime + MinutesPerDay]
               ELSE made

(***************************************************************************)
(* State                                                                   *)
(***************************************************************************)
VARIABLES
  call,       \* the core function last called, with its arguments
  ret,        \* what that call returned or threw
  pc,         \* position of the process / of createScheduledHabits
  TIMEZONE,   \* process.env.TIMEZONE
  serverTz,   \* the local timezone of the process (Date's local time)
  now,        \* the system clock, new Date()
  ticks,      \* how often the clock has advanced
  habits,     \* habits returned by loadHabitConfig in this run
  dueDate,    \* the Date that getHabitsDueToday(habits) read from the clock
  dueHabits,  \* getHabitsDueToday(habits)
  idx,        \* position of the for-loop over dueHabits
  attempt,    \* loop counter of createHabitWithRetry
  results,    \* CreateResult[] of createScheduledHabits
  pages,      \* page-creation requests accepted by Notion
  runResult,  \* HabitCreationResult returned by the run
  request,    \* the HTTP request last received by the server
  response,   \* the HTTP response last sent
  sent,       \* the pages.create request of the latest attempt, if one was sent
  appState,   \* main.ts appState: isShuttingDown, webhookServer
  proc        \* the process: main(), the shutdown in progress, the http server,
              \* pending forced-exit timers, events received, exit code

fnVars == <<call, ret>>
runVars == <<pc, TIMEZONE, serverTz, now, ticks, habits, dueDate, dueHabits,
             idx, attempt, results, pages, runResult, request, response, sent,
             appState, proc>>
schedulerVars == <<call, ret, pc, TIMEZONE, serverTz, now, ticks, habits,
                   dueDate, dueHabits, idx, attempt, results, pages, runResult,
                   request, response, sent>>
vars == <<call, ret, pc, TIMEZONE, serverTz, now, ticks, habits, dueDate,
          dueHabits, idx, attempt, results, pages, runResult, request,
          response, sent, appState, proc>>

\* const appState: AppState = { isShuttingDown: false }
InitialAppState == [isShuttingDown |-> FALSE, webhookServer |-> FALSE]

\* a process that entered main(): initializeApplication not yet at the server,
\* no shutdown, no http server, no timer, nothing received, not exited
InitialProc == [main |-> "initializing", shutdown |-> "none", server |-> "none",
                stopCalls |-> 0, timers |-> 0, signals |-> <<>>,
                exit |-> "running"]

NoCall == [op |-> "none"]
NoResult == [kind |-> "none"]

(***************************************************************************)
(* Inputs of the core functions                                            *)
(***************************************************************************)
SeqsUpTo(S, n) == UNION {[1..k -> S] : k \in 0..n}

RefMinutes == {120, 720, 1200}
\* reference dates of the evaluator: a full week and the days around a DST switch
RefDays == (0..MaxRefDay) \cup {BerlinDstDay - 1, BerlinDstDay}
RefInstants == {d * MinutesPerDay + m : d \in RefDays, m \in RefMinutes}
\* reference dates of the calculator
CalcDays == (0..MaxCalcDay) \cup {BerlinDstDay - 1, BerlinDstDay}
CalcInstants == {d * MinutesPerDay + m : d \in CalcDays, m \in RefMinutes}

CapMonday == <<"M", "o", "n", "d", "a", "y">>
PadMonday == <<" ", "m", "o", "n", "d", "a", "y", " ">>
funday == <<"f", "u", "n", "d", "a", "y">>
FreqTokens == {monday, tuesday, friday, saturday, sunday,
               CapMonday, PadMonday, funday}
WeekdaysOnly == <<monday, tuesday, wednesday, thursday, friday>>
WeekendsOnly == <<saturday, sunday>>
\* arrays that repeat a token (the loader only warns about duplicates)
SevenMondays == <<monday, monday, monday, monday, monday, monday, monday>>
RepeatedFrequencies == {SevenMondays, Append(WeekdaysOnly, monday),
                        Append(WeekendsOnly, sunday),
                        Append(VALID_WEEKDAYS, monday)}
Frequencies == SeqsUpTo(FreqTokens, MaxFreqLen)
                 \cup {WeekdaysOnly, WeekendsOnly, VALID_WEEKDAYS}
                 \cup RepeatedFrequencies

T0000 == <<"0", "0", ":", "0", "0">>
T0100 == <<"0", "1", ":", "0", "0">>
T0700 == <<"0", "7", ":", "0", "0">>
T0800 == <<"0", "8", ":", "0", "0">>
T900 == <<"9", ":", "0", "0">>
T1000 == <<"1", "0", ":", "0", "0">>
T2230 == <<"2", "2", ":", "3", "0">>
T2330 == <<"2", "3", ":", "3", "0">>
T2359 == <<"2", "3", ":", "5", "9">>
T2500 == <<"2", "5", ":", "0", "0">>
T1260 == <<"1", "2", ":", "6", "0">>
T125 == <<"1", "2", ":", "5">>
T07000 == <<"0", "7", ":", "0", "0", "0">>
T0700nl == <<"0", "7", ":", "0", "0", "\n">>
Tdash == <<"0", "7", "-", "0", "0">>
Tword == <<"i", "n", "v", "a", "l", "i", "d">>
T0900 == <<"0", "9", ":", "0", "0">>
TimeStrings == {T0000, T0100, T0700, T0800, T900, T0900, T1000, T2230,
                T2330, T2359,
                T2500, T1260, T125, T07000, T0700nl, Tdash, Tword, <<>>}

NameA == <<"A">>
NameB == <<"B">>
TemplateA == <<"t", "A">>
TemplateB == <<"t", "B">>

Habit(n, t, f, s, e, en) ==
  [name |-> n, templateId |-> t, frequency |-> f,
   startTime |-> s, endTime |-> e, enabled |-> en]

\* habits the frequency evaluator is called with
EvalHabits == {Habit(NameA, TemplateA, f, T0700, T0800, TRUE) :
                 f \in Frequencies}
                \cup {Habit(NameA, TemplateA, f, T0700, T0800, FALSE) :
                        f \in SeqsUpTo(FreqTokens, 1)
                                \cup {WeekdaysOnly, WeekendsOnly, VALID_WEEKDAYS}}
\* the habits of the scheduling tests: daily, weekdays, weekend, disabled
ListHabits == {Habit(NameA, TemplateA, VALID_WEEKDAYS, T0700, T0800, TRUE),
               Habit(NameB, TemplateB, WeekdaysOnly, T0700, T0800, TRUE),
               Habit(NameA, TemplateA, WeekendsOnly, T0700, T0800, TRUE),
               Habit(NameB, TemplateB, <<monday>>, T0700, T0800, FALSE)}
\* habits the time-range calculator is called with
CalcHabits == {Habit(NameA, TemplateA, <<monday>>, s, e, TRUE) :
                 s \in TimeStrings, e \in TimeStrings}

\* entries a habits.json may hold
FileHabits ==
  {Habit(NameA, TemplateA, <<monday>>, T0700, T0800, TRUE),
   Habit(NameB, TemplateB, VALID_WEEKDAYS, T2330, T0100, TRUE),
   Habit(NameB, TemplateB, <<monday>>, T0700, T0800, FALSE),
   Habit(NameB, TemplateB, <<monday>>, T2500, T0800, TRUE)}

ConfigFiles ==
  {[kind |-> "missing"], [kind |-> "badJson"]}
    \cup {[kind |-> "array", entries |-> es] : es \in SeqsUpTo(FileHabits, MaxHabits)}

(***************************************************************************)
(* config/loader.ts: loading the configuration file                        *)
(***************************************************************************)
\* validateHabitConfiguration, for a parsed JSON array
\* Variant: the loop over the array ends at the first invalid entry.
validateHabitConfiguration_StopAtInvalid(rawConfig) ==
  LET bad == {i \in 1..Len(rawConfig) : ~validateSingleHabit(rawConfig[i]).valid}
      upTo == IF bad = {} THEN Len(rawConfig)
              ELSE (CHOOSE i \in bad : \A j \in bad : i <= j) - 1
  IN  [validHabits |-> SubSeq(rawConfig, 1, upTo),
       invalidHabits |-> <<>>]

validateHabitConfiguration(rawConfig) ==
  LET invalid == SelectSeq(rawConfig, LAMBDA h : ~validateSingleHabit(h).valid)
  IN  [validHabits |-> SelectSeq(rawConfig, LAMBDA h : validateSingleHabit(h).valid),
       invalidHabits |-> [i \in 1..Len(invalid) |->
                            [config |-> invalid[i],
                             errors |-> validateSingleHabit(invalid[i]).errors]]]

\* loadHabitConfig: the valid habits of the file, or the error thrown
loadHabitConfig(file) ==
  IF file.kind = "missing"
  THEN [kind |-> "throw", error |-> "Configuration file not found"]
  ELSE IF file.kind = "badJson"
  THEN [kind |-> "throw", error |-> "Invalid JSON in configuration file"]
  ELSE LET validation == validateHabitConfiguration(file.entries)
       IN  IF Len(validation.validHabits) > 0
           THEN [kind |-> "ok", habits |-> validation.validHabits]
           ELSE [kind |-> "throw",
                 error |-> "No valid habits found in configuration file"]

\* habits whose two times are written differently and are the same minute
SameMinuteHabits == {Habit(NameA, TemplateA, <<monday>>, T900, T0900, TRUE),
                     Habit(NameA, TemplateA, <<monday>>, T0900, T900, TRUE)}

(***************************************************************************)
(* notion-client.ts                                                        *)
(***************************************************************************)
\* An error text is kept with the retry patterns it contains (lower-cased).
Text(t, has) == [text |-> t, has |-> has]

retryablePatterns == {"rate limited", "server error", "econnreset", "etimedout",
                      "enotfound", "429", "500", "502", "503", "504"}

\* What this.client.pages.create can answer or throw
NotionOutcomes ==
  {[kind |-> "created"],
   [kind |-> "api", status |-> 429, message |-> Text("slow down", {})],
   [kind |-> "api", status |-> 400, message |-> Text("validation failed", {})],
   [kind |-> "error", message |-> Text("read ECONNRESET", {"econnreset"})],
   [kind |-> "error", message |-> Text("", {})],
   [kind |-> "other"]}

\* What pages.create can throw one attempt after the other: the above and a
\* 404 whose message quotes an ID
RetryOutcomes ==
  NotionOutcomes
    \cup {[kind |-> "api", status |-> 404,
           message |-> Text("Could not find database with ID: 5004a1e2",
                            {"500"})]}

\* handleNotionError: the canRetry it logs for what was thrown (the error
\* codes stand in upper case in the messages above)
canRetry(error) ==
  IF error.kind = "api" THEN error.status \in {429, 500, 502, 503, 504}
  ELSE IF error.kind = "error"
       THEN error.message.has \cap {"econnreset", "etimedout", "enotfound"} # {}
       ELSE FALSE

\* handleNotionError: the failure CreateResult built from what was thrown
handleNotionError(error, habitName) ==
  LET errorMessage ==
        IF error.kind = "api"
        THEN CASE error.status = 429 ->
                    Text(<<"Rate limited by Notion API: ", error.message.text>>,
                         {"rate limited"} \cup error.message.has)
               [] error.status \in {500, 502, 503, 504} ->
                    Text(<<"Notion server error (", ToString(error.status), "): ",
                           error.message.text>>,
                         {"server error", ToString(error.status)}
                           \cup error.message.has)
               [] error.status = 400 ->
                    Text(<<"Invalid request to Notion API: ", error.message.text>>,
                         error.message.has)
               [] error.status = 401 ->
                    Text(<<"Notion API authentication failed: ", error.message.text>>,
                         error.message.has)
               [] error.status = 403 ->
                    Text(<<"Notion API access denied: ", error.message.text>>,
                         error.message.has)
               [] error.status = 404 ->
                    Text(<<"Notion resource not found: ", error.message.text>>,
                         error.message.has)
               [] OTHER ->
                    Text(<<"Notion API error (", ToString(error.status), "): ",
                           error.message.text>>,
                         ({ToString(error.status)} \cap retryablePatterns)
                           \cup error.message.has)
        ELSE IF error.kind = "error"
        THEN Text(<<error.message.text>>, error.message.has)
        ELSE Text(<<"Unknown error occurred">>, {})
  IN  [success |-> FALSE, habitName |-> habitName, error |-> errorMessage]

\* isRetryableError
isRetryableError(errorMessage) ==
  \E pattern \in retryablePatterns : pattern \in errorMessage.has

\* Variant: EXPECTED.end is filled with the start of the range.
PageRequest_EndFromStart(habit, timeRange, outcome) ==
  [template_id |-> habit.templateId,
   TAG |-> "HABIT",
   start |-> timeRange.start,
   end |-> timeRange.start,
   accepted |-> outcome.kind = "created",
   habit |-> habit]

\* The argument of this.client.pages.create, with the habit it is sent for
\* and whether Notion accepts it.
PageRequest(habit, timeRange, outcome) ==
  [template_id |-> habit.templateId,
   TAG |-> "HABIT",
   start |-> timeRange.start,
   end |-> timeRange.end,
   accepted |-> outcome.kind = "created",
   habit |-> habit]

\* process.env.TIMEZONE || 'UTC'
EffectiveTimezone == IF TIMEZONE = "" THEN "UTC" ELSE TIMEZONE

\* Variant: what calculateTimeRange throws is not taken for an Error.
createHabitFromTemplate_UnknownError(habit, timezone, clock, outcome, newId) ==
  LET timeRange == calculateTimeRange(habit, timezone, <<>>, clock)
  IN  IF timeRange.kind = "throw"
      THEN [request |-> <<>>,
            result |-> handleNotionError([kind |-> "other"], habit.name)]
      ELSE LET pageRequest == PageRequest(habit, timeRange, outcome)
           IN  IF outcome.kind = "created"
               THEN [request |-> <<pageRequest>>,
                     result |-> [success |-> TRUE,
                                 habitName |-> habit.name,
                                 entry |-> [id |-> newId,
                                            title |-> habit.name,
                                            templateUsed |-> habit.templateId,
                                            timeRange |-> <<timeRange.start, " - ",
                                                            timeRange.end>>]]]
               ELSE [request |-> <<pageRequest>>,
                     result |-> handleNotionError(outcome, habit.name)]

\* createHabitFromTemplate: given the clock, the configured timezone and what
\* Notion answers, the request sent (if any) and the CreateResult returned.
createHabitFromTemplate(habit, timezone, clock, outcome, newId) ==
  LET timeRange == calculateTimeRange(habit, timezone, <<>>, clock)
  IN  IF timeRange.kind = "throw"
      THEN [request |-> <<>>,
            result |-> handleNotionError(
                         [kind |-> "error", message |-> Text(timeRange.error, {})],
                         habit.name)]
      ELSE LET pageRequest == PageRequest(habit, timeRange, outcome)
           IN  IF outcome.kind = "created"
               THEN [request |-> <<pageRequest>>,
                     result |-> [success |-> TRUE,
                                 habitName |-> habit.name,
                                 entry |-> [id |-> newId,
                                            title |-> habit.name,
                                            templateUsed |-> habit.templateId,
                                            timeRange |-> <<timeRange.start, " - ",
                                                            timeRange.end>>]]]
               ELSE [request |-> <<pageRequest>>,
                     result |-> handleNotionError(outcome, habit.name)]

maxRetries == 3

\* createHabitWithRetry: whether the loop leaves after this attempt's result
RetryLoopEnds(result, att) ==
  \/ result.success
  \/ att = maxRetries
  \/ ~isRetryableError(result.error)

\* createHabitWithRetry from pass att of its for-loop on: outcomes[k] is what
\* Notion answers to the k-th call of pages.create. Gives the number of calls
\* of createHabitFromTemplate made and the CreateResult returned.
RECURSIVE RetryLoop(_, _, _, _, _)
RetryLoop(habit, timezone, clock, outcomes, att) ==
  LET result == createHabitFromTemplate(habit, timezone, clock,
                                        outcomes[att + 1], att + 1).result
  IN  IF RetryLoopEnds(result, att)
      THEN [attempts |-> att + 1, result |-> result]
      ELSE RetryLoop(habit, timezone, clock, outcomes, att + 1)

createHabitWithRetry(habit, timezone, clock, outcomes) ==
  RetryLoop(habit, timezone, clock, outcomes, 0)

(***************************************************************************)
(* Calls of the core functions: the arguments are drawn at the start, the  *)
(* step applies the function to them.                                      *)
(***************************************************************************)
\* The instants the system clock shows when a core function is called.
WallClocks == {MinutesPerDay + 120, 3 * MinutesPerDay + 1200}

FnCall(c) ==
  \/ \E habit \in EvalHabits, date \in RefInstants, tz \in ValidTimezones :
       \/ c = [op |-> "isDueToday", habit |-> habit, date |-> date, tz |-> tz]
       \/ c = [op |-> "getNextScheduledDate", habit |-> habit, date |-> date,
               tz |-> tz]
  \/ \E hs \in SeqsUpTo(ListHabits, MaxHabits), date \in RefInstants,
        tz \in ValidTimezones :
       c = [op |-> "getHabitsDueToday", habits |-> hs, date |-> date, tz |-> tz]
  \/ \E s \in TimeStrings, e \in TimeStrings, timezone \in Timezones,
        date \in CalcInstants :
       \/ c = [op |-> "calculateTimeRange",
               habit |-> Habit(NameA, TemplateA, <<monday>>, s, e, TRUE),
               timezone |-> timezone, date |-> date]
       \/ c = [op |-> "calculateTimeRange",
               habit |-> Habit(NameA, TemplateA, <<monday>>, s, e, TRUE),
               timezone |-> timezone]
       \/ c = [op |-> "calculateTimeRangeFromParams",
               params |-> [startTime |-> s, endTime |-> e,
                           timezone |-> timezone, date |-> date]]
  \/ \E habit \in EvalHabits \cup CalcHabits \cup SameMinuteHabits :
       c = [op |-> "validateSingleHabit", habit |-> habit]
  \/ \E outcomes \in [1..(maxRetries + 1) -> RetryOutcomes] :
       c = [op |-> "createHabitWithRetry",
            habit |-> Habit(NameA, TemplateA, <<monday>>, T0700, T0800, TRUE),
            outcomes |-> outcomes]
  \/ \E habit \in CalcHabits, outcome \in NotionOutcomes :
       c = [op |-> "createHabitFromTemplate", habit |-> habit,
            outcome |-> outcome]
  \/ \E file \in ConfigFiles :
       c = [op |-> "loadHabitConfig", file |-> file]
  \/ \E rawConfig \in SeqsUpTo(FileHabits, MaxHabits) :
       c = [op |-> "validateHabitConfiguration", rawConfig |-> rawConfig]
  \/ \E habit \in EvalHabits,
        op \in {"getScheduledWeekdays", "isDaily", "isWeekdaysOnly",
                "isWeekendsOnly"} :
       c = [op |-> op, habit |-> habit]

Return(v) == [kind |-> "return", value |-> v]

CallIsDueToday ==
  /\ call.op = "isDueToday" /\ ret = NoResult
  /\ ret' = Return(isDueToday(call.habit, call.date, call.tz))
  /\ call' = [call EXCEPT
                !.date = isDueTodayObjects(call.habit, <<call.date>>, 1, call.tz)[1]]
  /\ UNCHANGED runVars

CallGetHabitsDueToday ==
  /\ call.op = "getHabitsDueToday" /\ ret = NoResult
  /\ ret' = Return(getHabitsDueToday(call.habits, call.date, call.tz))
  /\ call' = [call EXCEPT
                !.date = getHabitsDueTodayObjects(call.habits, <<call.date>>, 1,
                                                  call.tz)[1]]
  /\ UNCHANGED runVars

CallGetNextScheduledDate ==
  /\ call.op = "getNextScheduledDate" /\ ret = NoResult
  /\ ret' = Return(getNextScheduledDate(call.habit, call.date, call.tz))
  /\ call' = [call EXCEPT
                !.date = getNextScheduledDateObjects(call.habit, <<call.date>>, 1,
                                                     call.tz)[1]]
  /\ UNCHANGED runVars

CallCalculateTimeRange ==
  /\ call.op = "calculateTimeRange" /\ ret = NoResult
  /\ IF "date" \in DOMAIN call
     THEN /\ ret' = calculateTimeRange(call.habit, call.timezone, <<call.date>>,
                                       now)
          /\ call' = [call EXCEPT
                        !.date = TimeRangeObjects(
                                   call.habit.startTime, call.habit.endTime,
                                   call.timezone, <<call.date>>, 1)[1]]
     ELSE /\ ret' = calculateTimeRange(call.habit, call.timezone, <<>>, now)
          /\ call' = call
  /\ UNCHANGED runVars

CallCalculateTimeRangeFromParams ==
  /\ call.op = "calculateTimeRangeFromParams" /\ ret = NoResult
  /\ ret' = calculateTimeRangeFromParams(call.params)
  /\ call' = [call EXCEPT
                !.params.date = TimeRangeObjects(call.params.startTime,
                                                 call.params.endTime,
                                                 call.params.timezone,
                                                 <<call.params.date>>, 1)[1]]
  /\ UNCHANGED runVars

CallValidateSingleHabit ==
  /\ call.op = "validateSingleHabit" /\ ret = NoResult
  /\ ret' = Return(validateSingleHabit(call.habit))
  /\ UNCHANGED <<call, runVars>>

CallGetScheduledWeekdays ==
  /\ call.op = "getScheduledWeekdays" /\ ret = NoResult
  /\ ret' = Return(getScheduledWeekdays(call.habit))
  /\ UNCHANGED <<call, runVars>>

CallIsDaily ==
  /\ call.op = "isDaily" /\ ret = NoResult
  /\ ret' = Return(isDaily(call.habit))
  /\ UNCHANGED <<call, runVars>>

CallIsWeekdaysOnly ==
  /\ call.op = "isWeekdaysOnly" /\ ret = NoResult
  /\ ret' = Return(isWeekdaysOnly(call.habit))
  /\ UNCHANGED <<call, runVars>>

CallIsWeekendsOnly ==
  /\ call.op = "isWeekendsOnly" /\ ret = NoResult
  /\ ret' = Return(isWeekendsOnly(call.habit))
  /\ UNCHANGED <<call, runVars>>

CallCreateHabitFromTemplate ==
  /\ call.op = "createHabitFromTemplate" /\ ret = NoResult
  /\ ret' = Return(createHabitFromTemplate(call.habit, EffectiveTimezone, now,
                                           call.outcome, 1))
  /\ UNCHANGED <<call, runVars>>

CallCreateHabitWithRetry ==
  /\ call.op = "createHabitWithRetry" /\ ret = NoResult
  /\ ret' = Return(createHabitWithRetry(call.habit, EffectiveTimezone, now,
                                        call.outcomes))
  /\ UNCHANGED <<call, runVars>>

CallLoadHabitConfig ==
  /\ call.op = "loadHabitConfig" /\ ret = NoResult
  /\ ret' = loadHabitConfig(call.file)
  /\ UNCHANGED <<call, runVars>>

CallValidateHabitConfiguration ==
  /\ call.op = "validateHabitConfiguration" /\ ret = NoResult
  /\ ret' = Return(validateHabitConfiguration(call.rawConfig))
  /\ UNCHANGED <<call, runVars>>

FnInit ==
  /\ FnCall(call)
  /\ ret = NoResult
  /\ pc = "idle"
  /\ TIMEZONE \in IF call.op = "createHabitFromTemplate"
                  THEN {"", "Asia/Tokyo", "Invalid/Timezone"} ELSE {"UTC"}
  /\ serverTz = "UTC"
  /\ now \in IF call.op \in {"calculateTimeRange", "createHabitFromTemplate"}
              THEN WallClocks ELSE {0}
  /\ ticks = 0
  /\ habits = <<>>
  /\ dueDate = 0
  /\ dueHabits = <<>>
  /\ idx = 1
  /\ attempt = 0
  /\ results = <<>>
  /\ pages = <<>>
  /\ runResult = NoResult
  /\ request = NoResult
  /\ response = NoResult
  /\ sent = <<>>
  /\ appState = InitialAppState
  /\ proc = InitialProc

FnNext ==
  \/ CallIsDueToday
  \/ CallGetHabitsDueToday
  \/ CallGetNextScheduledDate
  \/ CallCalculateTimeRange
  \/ CallCalculateTimeRangeFromParams
  \/ CallValidateSingleHabit
  \/ CallGetScheduledWeekdays
  \/ CallIsDaily
  \/ CallIsWeekdaysOnly
  \/ CallIsWeekendsOnly
  \/ CallLoadHabitConfig
  \/ CallValidateHabitConfiguration
  \/ CallCreateHabitFromTemplate
  \/ CallCreateHabitWithRetry

SpecFn == FnInit /\ [][FnNext]_vars

(***************************************************************************)
(* HabitManager                                                            *)
(***************************************************************************)
\* if (result.error): an error text is falsy when it is the empty string
IsEmptyString(errorMessage) ==
  \A i \in 1..Len(errorMessage.text) : errorMessage.text[i] = ""

\* Variant: skipped names the failed habits that have an error text.
aggregateResults_SkippedWithError(rs) ==
  LET created == SelectSeq(rs, LAMBDA r : r.success)
      failed == SelectSeq(rs, LAMBDA r : ~r.success)
      withError == SelectSeq(failed, LAMBDA r : ~IsEmptyString(r.error))
      errors == [i \in 1..Len(withError) |->
                   [habitName |-> withError[i].habitName,
                    error |-> withError[i].error]]
  IN  [success |-> Len(errors) = 0,
       created |-> [i \in 1..Len(created) |-> created[i].entry],
       skipped |-> [i \in 1..Len(withError) |-> withError[i].habitName],
       errors |-> errors]

\* aggregateResults
aggregateResults(rs) ==
  LET created == SelectSeq(rs, LAMBDA r : r.success)
      failed == SelectSeq(rs, LAMBDA r : ~r.success)
      withError == SelectSeq(failed, LAMBDA r : ~IsEmptyString(r.error))
      errors == [i \in 1..Len(withError) |->
                   [habitName |-> withError[i].habitName,
                    error |-> withError[i].error]]
  IN  [success |-> Len(errors) = 0,
       created |-> [i \in 1..Len(created) |-> created[i].entry],
       skipped |-> [i \in 1..Len(failed) |-> failed[i].habitName],
       errors |-> errors]

\* Variant: a failed habit ends the for-loop.
NextHabitIndex_StopOnFailure(i, result, n) ==
  IF result.success THEN i + 1 ELSE n + 1

\* The for-loop over dueHabits: the habit processed after the one at index i.
NextHabitIndex(i, result, n) == i + 1

(***************************************************************************)
(* WebhookServer                                                           *)
(***************************************************************************)
\* Values of a JSON body or a parsed query string, with their typeof
Undefined == [type |-> "undefined"]
Str(s) == [type |-> "string", chars |-> s]
Num(n) == [type |-> "number", num |-> n]
Arr(a) == [type |-> "object", items |-> a]

\* What `||` and `!` take for true
Truthy(v) ==
  CASE v.type = "undefined" -> FALSE
    [] v.type = "string" -> Len(v.chars) > 0
    [] v.type = "number" -> v.num # 0
    [] OTHER -> TRUE

\* process.env.WEBHOOK_SECRET, read by getWebhookSecret
WEBHOOK_SECRET == <<"4", "2", "7">>

RECURSIVE BitXor(_, _)
BitXor(a, b) ==
  IF a = 0 /\ b = 0 THEN 0
  ELSE (((a % 2) + (b % 2)) % 2) + 2 * BitXor(a \div 2, b \div 2)

RECURSIVE BitOr(_, _)
BitOr(a, b) ==
  IF a = 0 /\ b = 0 THEN 0
  ELSE (IF a % 2 = 1 \/ b % 2 = 1 THEN 1 ELSE 0) + 2 * BitOr(a \div 2, b \div 2)

\* result after the first i passes of the loop of constantTimeCompare
RECURSIVE XorFold(_, _, _)
XorFold(a, b, i) ==
  IF i = 0 THEN 0
  ELSE BitOr(XorFold(a, b, i - 1), BitXor(CharCode(a[i]), CharCode(b[i])))

constantTimeCompare(a, b) ==
  IF Len(a) # Len(b) THEN FALSE
  ELSE XorFold(a, b, Len(a)) = 0

\* request.body?.secret || request.query?.secret
providedSecretOf(req) ==
  IF Truthy(req.body.secret) THEN req.body.secret ELSE req.query.secret

\* Variant: any string is accepted as the secret.
validateSecret_AnyString(req) ==
  LET providedSecret == providedSecretOf(req)
  IN  Truthy(providedSecret) /\ providedSecret.type = "string"

validateSecret(req) ==
  LET providedSecret == providedSecretOf(req)
  IN  IF ~Truthy(providedSecret) THEN FALSE
      ELSE IF providedSecret.type # "string" THEN FALSE
      ELSE constantTimeCompare(providedSecret.chars, WEBHOOK_SECRET)

\* types.ts isWebhookRequest, for a body that express.json parsed to an object
isWebhookRequest(obj) ==
  /\ obj.secret.type = "string"
  /\ (obj.timestamp = Undefined \/ obj.timestamp.type = "number")

\* The JSON answers of handleWebhook
Unauthorized ==
  [status |-> 401, success |-> FALSE, created |-> 0, skipped |-> 0,
   errors |-> <<"Authentication failed">>]
BadRequest ==
  [status |-> 400, success |-> FALSE, created |-> 0, skipped |-> 0,
   errors |-> <<"Invalid request format">>]
WebhookResponse(result) ==
  [status |-> 200, success |-> result.success,
   created |-> Len(result.created), skipped |-> Len(result.skipped),
   errors |-> result.errors]

\* getSystemStatus and the HTTP status handleHealthCheck maps it to
getSystemStatus(notionConnected, configurationLoaded) ==
  IF notionConnected /\ configurationLoaded THEN "healthy"
  ELSE IF configurationLoaded \/ notionConnected THEN "degraded"
  ELSE "unhealthy"
HealthResponse(systemStatus) ==
  [status |-> IF systemStatus = "unhealthy" THEN 503 ELSE 200,
   health |-> systemStatus]
NotFound == [status |-> 404, success |-> FALSE]

(***************************************************************************)
(* The process: start-up (main.ts), the requests received and one          *)
(* createScheduledHabits run                                               *)
(***************************************************************************)
\* what loadHabitConfig returns or throws for these files
LoadedConfigs == {loadHabitConfig(file) : file \in ConfigFiles}

\* Sunday noon and Sunday 23:30 (UTC) of the first week
RunStartInstants == {6 * MinutesPerDay + 720, 6 * MinutesPerDay + 1410}
TickMinutes == 60

\* secrets a caller may supply: none, empty, right, wrong, too short, a number
WrongSecret == <<"4", "2", "8">>
ShortSecret == <<"4", "2">>
BodySecrets == {Undefined, Str(<<>>), Str(WEBHOOK_SECRET), Str(WrongSecret),
                Str(ShortSecret), Num(427)}

HttpRequest(method, path, secret, timestamp, querySecret) ==
  [method |-> method, path |-> path,
   body |-> [secret |-> secret, timestamp |-> timestamp],
   query |-> [secret |-> querySecret]]

\* requests the server receives
HttpRequests ==
  {HttpRequest("POST", "/webhook", b, Undefined, Undefined) : b \in BodySecrets}
    \cup {HttpRequest("POST", "/webhook", b, Undefined, Str(WEBHOOK_SECRET)) :
            b \in {Undefined, Str(<<>>), Str(WrongSecret)}}
    \cup {HttpRequest("POST", "/webhook", Str(WEBHOOK_SECRET), t, Undefined) :
            t \in {Num(1705320000), Str(<<"n", "o", "w">>)}}
    \cup {HttpRequest("POST", "/webhook", Undefined, Undefined,
                      Arr(<<WEBHOOK_SECRET, WEBHOOK_SECRET>>)),
          HttpRequest("GET", "/webhook", Undefined, Undefined, Str(WEBHOOK_SECRET)),
          HttpRequest("POST", "/run", Str(WEBHOOK_SECRET), Undefined, Undefined),
          HttpRequest("GET", "/health", Undefined, Undefined, Undefined)}

Init ==
  /\ call = NoCall
  /\ ret = NoResult
  /\ pc = "boot"
  /\ TIMEZONE \in {"", "Asia/Tokyo", "Invalid/Timezone"}
  /\ serverTz \in {"UTC", "Asia/Tokyo"}
  /\ now \in RunStartInstants
  /\ ticks = 0
  /\ habits = <<>>
  /\ dueDate = 0
  /\ dueHabits = <<>>
  /\ idx = 1
  /\ attempt = 0
  /\ results = <<>>
  /\ pages = <<>>
  /\ runResult = NoResult
  /\ request = NoResult
  /\ response = NoResult
  /\ sent = <<>>
  /\ appState = InitialAppState
  /\ proc = InitialProc

\* main.ts loadConfiguration: an unresolvable TIMEZONE ends the process
LoadConfiguration ==
  /\ pc = "boot"
  /\ pc' = IF TIMEZONE # "" /\ TIMEZONE \notin ValidTimezones
           THEN "exited" ELSE "idle"
  /\ UNCHANGED <<appState, proc, call, ret, TIMEZONE, serverTz, now, ticks, habits, dueDate,
                 dueHabits, idx, attempt, results, pages, runResult, request,
                 response, sent>>

\* The system clock advances while the run waits (network call, back-off).
Tick ==
  /\ pc = "creating"
  /\ ticks < MaxTicks
  /\ now' = now + TickMinutes
  /\ ticks' = ticks + 1
  /\ UNCHANGED <<appState, proc, call, ret, pc, TIMEZONE, serverTz, habits, dueDate, dueHabits,
                 idx, attempt, results, pages, runResult, request, response,
                 sent>>

\* createScheduledHabits up to the for-loop: load, filter, early returns; a
\* run that returns early is answered at once.
StartRun ==
  /\ pc = "idle"
  /\ \E loaded \in LoadedConfigs :
       LET due == getHabitsDueToday(loaded.habits, now, serverTz)
       IN  IF loaded.kind = "throw"
           THEN /\ runResult' = [success |-> FALSE, created |-> <<>>,
                                 skipped |-> <<>>,
                                 errors |-> <<<<"Configuration loading failed: ",
                                               loaded.error>>>>]
                /\ pc' = "done"
                /\ UNCHANGED <<habits, dueDate, dueHabits>>
           ELSE /\ habits' = loaded.habits
                /\ dueDate' = now
                /\ dueHabits' = due
                /\ IF Len(due) = 0
                   THEN /\ runResult' = [success |-> TRUE, created |-> <<>>,
                                         skipped |-> <<>>, errors |-> <<>>]
                        /\ pc' = "done"
                   ELSE /\ pc' = "creating"
                        /\ UNCHANGED runResult
  /\ response' = IF pc' = "done" THEN WebhookResponse(runResult') ELSE NoResult
  /\ idx' = 1
  /\ attempt' = 0
  /\ results' = <<>>
  /\ UNCHANGED <<appState, proc, call, ret, TIMEZONE, serverTz, now, ticks, pages, sent>>

\* A handler answers without calling the HabitManager's run.
Reply(r) ==
  /\ response' = r
  /\ UNCHANGED <<appState, proc, call, ret, pc, TIMEZONE, serverTz, now, ticks, habits, dueDate,
                 dueHabits, idx, attempt, results, pages, runResult, sent>>

\* app.post('/webhook'): handleWebhook up to the first await of the run
HandleWebhook ==
  /\ pc = "idle"
  /\ \E req \in HttpRequests :
       /\ req.method = "POST" /\ req.path = "/webhook"
       /\ request' = req
       /\ IF ~validateSecret(req) THEN Reply(Unauthorized)
          ELSE IF ~isWebhookRequest(req.body) THEN Reply(BadRequest)
          ELSE StartRun

\* app.get('/health'): handleHealthCheck
HandleHealthCheck ==
  /\ pc = "idle"
  /\ \E req \in HttpRequests, notionConnected \in BOOLEAN,
        loaded \in LoadedConfigs :
       /\ req.method = "GET" /\ req.path = "/health"
       /\ request' = req
       /\ Reply(HealthResponse(
                  getSystemStatus(notionConnected, loaded.kind = "ok")))

\* app.all('*'): handleNotFound
HandleNotFound ==
  /\ pc = "idle"
  /\ \E req \in HttpRequests :
       /\ ~(req.method = "POST" /\ req.path = "/webhook")
       /\ ~(req.method = "GET" /\ req.path = "/health")
       /\ request' = req
       /\ Reply(NotFound)

\* One pass of the createHabitWithRetry loop for dueHabits[idx]: the call of
\* createHabitFromTemplate, then return, break or back-off and retry.
Attempt ==
  /\ pc = "creating"
  /\ idx <= Len(dueHabits)
  /\ \E outcome \in NotionOutcomes :
       LET habit == dueHabits[idx]
           made == createHabitFromTemplate(habit, EffectiveTimezone, now,
                                           outcome, Len(pages) + 1)
           result == made.result
       IN  /\ pages' = pages \o SelectSeq(made.request, LAMBDA r : r.accepted)
           /\ sent' = made.request
           /\ IF RetryLoopEnds(result, attempt)
              THEN /\ results' = Append(results, result)
                   /\ idx' = NextHabitIndex(idx, result, Len(dueHabits))
                   /\ attempt' = 0
              ELSE /\ attempt' = attempt + 1
                   /\ UNCHANGED <<results, idx>>
  /\ UNCHANGED <<appState, proc, call, ret, pc, TIMEZONE, serverTz, now, ticks, habits, dueDate,
                 dueHabits, runResult, request, response>>

\* createScheduledHabits after the for-loop: aggregate and return; handleWebhook
\* answers 200 with the sizes of the lists.
FinishRun ==
  /\ pc = "creating"
  /\ idx > Len(dueHabits)
  /\ runResult' = aggregateResults(results)
  /\ response' = WebhookResponse(runResult')
  /\ pc' = "done"
  /\ UNCHANGED <<appState, proc, call, ret, TIMEZONE, serverTz, now, ticks, habits, dueDate,
                 dueHabits, idx, attempt, results, pages, request, sent>>

Next ==
  \/ LoadConfiguration
  \/ Tick
  \/ HandleWebhook
  \/ HandleHealthCheck
  \/ HandleNotFound
  \/ Attempt
  \/ FinishRun

Spec == Init /\ [][Next]_vars

(***************************************************************************)
(* main.ts: the life of the process, its signal handlers and shutdown      *)
(***************************************************************************)
MaxSignals == 3

\* the events setupSignalHandlers registers a handler for
ShutdownEvents == {"SIGTERM", "SIGINT", "uncaughtException", "unhandledRejection"}

\* Variant: a call goes on with the shutdown whether or not one is in progress.
gracefulShutdown_NoGuard(state, p) ==
  IF state.webhookServer /\ p.server = "listening"
  THEN [appState |-> [state EXCEPT !.isShuttingDown = TRUE],
        proc |-> [p EXCEPT !.stopCalls = @ + 1, !.server = "closing",
                           !.shutdown = "stopping"]]
  ELSE [appState |-> [state EXCEPT !.isShuttingDown = TRUE],
        proc |-> [p EXCEPT !.stopCalls = IF state.webhookServer THEN @ + 1 ELSE @,
                           !.shutdown = "waiting"]]

\* gracefulShutdown up to its first await: the guard, the flag, the call of
\* webhookServer.stop() (which closes the http server if there is one)
gracefulShutdown(state, p) ==
  IF state.isShuttingDown THEN [appState |-> state, proc |-> p]
  ELSE IF state.webhookServer /\ p.server = "listening"
  THEN [appState |-> [state EXCEPT !.isShuttingDown = TRUE],
        proc |-> [p EXCEPT !.stopCalls = @ + 1, !.server = "closing",
                           !.shutdown = "stopping"]]
  ELSE [appState |-> [state EXCEPT !.isShuttingDown = TRUE],
        proc |-> [p EXCEPT !.stopCalls = IF state.webhookServer THEN @ + 1 ELSE @,
                           !.shutdown = "waiting"]]

\* The handler of one event: the exception handlers arm a 5 s forced exit
\* first; all of them call gracefulShutdown.
OnEvent(event) ==
  /\ proc.exit = "running"
  /\ Len(proc.signals) < MaxSignals
  /\ LET armed == IF event \in {"uncaughtException", "unhandledRejection"}
                  THEN proc.timers + 1 ELSE proc.timers
         after == gracefulShutdown(
                    appState,
                    [proc EXCEPT !.signals = Append(@, event), !.timers = armed])
     IN  /\ appState' = after.appState
         /\ proc' = after.proc
  /\ UNCHANGED schedulerVars

OnSIGTERM == OnEvent("SIGTERM")

OnSIGINT == OnEvent("SIGINT")

OnUncaughtException == OnEvent("uncaughtException")

OnUnhandledRejection == OnEvent("unhandledRejection")

\* initializeApplication: appState.webhookServer = webhookServer, then
\* webhookServer.start() calls app.listen
CreateWebhookServer ==
  /\ proc.exit = "running" /\ proc.main = "initializing"
  /\ appState' = [appState EXCEPT !.webhookServer = TRUE]
  /\ proc' = [proc EXCEPT !.main = "starting", !.server = "listening"]
  /\ UNCHANGED schedulerVars

\* the listen callback resolves start(); initializeApplication returns
ServerStarted ==
  /\ proc.exit = "running" /\ proc.main = "starting"
  /\ proc' = [proc EXCEPT !.main = "running"]
  /\ UNCHANGED <<appState, schedulerVars>>

\* initializeApplication: validation fails or a step throws, process.exit(1)
InitializationFails ==
  /\ proc.exit = "running" /\ proc.main = "initializing"
  /\ proc' = [proc EXCEPT !.exit = "exit1"]
  /\ UNCHANGED <<appState, schedulerVars>>

\* the callback of server.close in stop(): with an error stop() rejects and
\* gracefulShutdown exits with 1; without, this.server = undefined and
\* gracefulShutdown goes on to its 2 s wait
ServerClosed ==
  /\ proc.exit = "running" /\ proc.server = "closing"
  /\ \E error \in BOOLEAN :
       proc' = IF error THEN [proc EXCEPT !.exit = "exit1"]
               ELSE [proc EXCEPT !.server = "none", !.shutdown = "waiting"]
  /\ UNCHANGED <<appState, schedulerVars>>

\* gracefulShutdown after its 2 s wait: process.exit(0)
ShutdownCompleted ==
  /\ proc.exit = "running" /\ proc.shutdown = "waiting"
  /\ proc' = [proc EXCEPT !.exit = "exit0"]
  /\ UNCHANGED <<appState, schedulerVars>>

\* a 5 s timer of an exception handler fires: process.exit(1)
ForcedExit ==
  /\ proc.exit = "running" /\ proc.timers > 0
  /\ proc' = [proc EXCEPT !.exit = "exit1"]
  /\ UNCHANGED <<appState, schedulerVars>>

ShutdownInit ==
  /\ call = NoCall
  /\ ret = NoResult
  /\ pc = "boot"
  /\ TIMEZONE = ""
  /\ serverTz = "UTC"
  /\ now = 0
  /\ ticks = 0
  /\ habits = <<>>
  /\ dueDate = 0
  /\ dueHabits = <<>>
  /\ idx = 1
  /\ attempt = 0
  /\ results = <<>>
  /\ pages = <<>>
  /\ runResult = NoResult
  /\ request = NoResult
  /\ response = NoResult
  /\ sent = <<>>
  /\ appState = InitialAppState
  /\ proc = InitialProc

ShutdownNext ==
  \/ OnSIGTERM
  \/ OnSIGINT
  \/ OnUncaughtException
  \/ OnUnhandledRejection
  \/ CreateWebhookServer
  \/ ServerStarted
  \/ InitializationFails
  \/ ServerClosed
  \/ ShutdownCompleted
  \/ ForcedExit

SpecShutdown == ShutdownInit /\ [][ShutdownNext]_vars

(***************************************************************************)
(* Properties of the core functions (checked under SpecFn)                 *)
(***************************************************************************)
IsCalc == call.op \in {"calculateTimeRange", "calculateTimeRangeFromParams"}
ArgStart == IF call.op = "calculateTimeRange" THEN call.habit.startTime
            ELSE call.params.startTime
ArgEnd == IF call.op = "calculateTimeRange" THEN call.habit.endTime
          ELSE call.params.endTime
ArgTimezone == IF call.op = "calculateTimeRange" THEN call.timezone
               ELSE call.params.timezone
ArgDate == IF call.op = "calculateTimeRange"
           THEN (IF "date" \in DOMAIN call THEN call.date ELSE now)
           ELSE call.params.date

\* The weekday token of calendar day n (day 0 is a Monday).
WeekdayOfDay(n) == VALID_WEEKDAYS[(n % 7) + 1]

\* H:MM or HH:MM with hour 0-23 and minute 00-59.
WellFormedTime(s) ==
  /\ Len(s) \in {4, 5}
  /\ s[Len(s) - 2] = ":"
  /\ \A i \in (1..Len(s)) \ {Len(s) - 2} : s[i] \in Digits
  /\ (IF Len(s) = 5 THEN DigitVal(s[1]) * 10 + DigitVal(s[2]) ELSE DigitVal(s[1])) <= 23
  /\ DigitVal(s[Len(s) - 1]) * 10 + DigitVal(s[Len(s)]) <= 59

\* The minute of the day a well-formed time string denotes.
MinuteOfDay(s) ==
  (IF Len(s) = 5 THEN DigitVal(s[1]) * 10 + DigitVal(s[2]) ELSE DigitVal(s[1])) * 60
    + DigitVal(s[Len(s) - 1]) * 10 + DigitVal(s[Len(s)])

\* C1: for an enabled habit, isDueToday returns (never throws) true exactly
\* when the weekday name of the reference date + 1 calendar day is an
\* element of the frequency array; with no matching token it is never due.
C1_DueIffTomorrowInFrequency ==
  (call.op = "isDueToday" /\ ret # NoResult /\ call.habit.enabled) =>
    /\ ret.kind = "return"
    /\ ret.value \in BOOLEAN
    /\ ret.value = (\E i \in 1..Len(call.habit.frequency) :
                      call.habit.frequency[i]
                        = WeekdayOfDay(LocalDay(call.date, call.tz) + 1))

\* C1 witness: an enabled monday habit asked on a Sunday is due.
C1_Witness ==
  /\ call.op = "isDueToday" /\ ret # NoResult /\ call.habit.enabled
  /\ call.habit.frequency = <<monday>>
  /\ LocalDay(call.date, call.tz) % 7 = 6
  /\ ret.value = TRUE

\* C2: calculateTimeRange and calculateTimeRangeFromParams place start on the
\* calendar day after the reference date; for UTC, 2024-01-15T12:00Z and
\* 07:00-08:00 the range is 2024-01-16T07:00Z to 2024-01-16T08:00Z.
C2_StartOnDayAfterReference ==
  (IsCalc /\ ret.kind = "ok") =>
    /\ (ArgTimezone = "UTC" /\ ArgDate = 720 /\ ArgStart = T0700 /\ ArgEnd = T0800)
         => /\ ret.start = [day |-> 1, hh |-> 7, mm |-> 0]
            /\ ret.end = [day |-> 1, hh |-> 8, mm |-> 0]
    /\ LocalDay(IsoInstant(ret.start), ArgTimezone)
         = LocalDay(ArgDate, ArgTimezone) + 1

\* C4: every TimeRange returned has end strictly after start, also when
\* endTime is earlier than or equal to startTime as a time of day.
C4_EndAfterStart ==
  (IsCalc /\ ret.kind = "ok") => IsoInstant(ret.end) > IsoInstant(ret.start)

\* C4 witness: a range was returned for equal start and end strings.
C4_Witness ==
  /\ IsCalc /\ ret.kind = "ok"
  /\ ArgStart = ArgEnd

C6_StartIsWallClockInstant ==
  (IsCalc /\ ret.kind = "ok") =>
    LET st == IsoInstant(ret.start)
    IN  /\ WallClock(st, ArgTimezone)
             = LocalDay(ArgDate, ArgTimezone) * MinutesPerDay + MinuteOfDay(ArgStart)
        /\ ComputedOffset(ArgDate, ArgTimezone) = TzOffset(ArgTimezone, st)

\* C7: a disabled habit is never due, never in the list getHabitsDueToday
\* returns, and has no next scheduled date.
C7_DisabledNeverScheduled ==
  /\ (call.op = "isDueToday" /\ ret # NoResult /\ ~call.habit.enabled)
       => ret.value = FALSE
  /\ (call.op = "getHabitsDueToday" /\ ret # NoResult)
       => \A i \in 1..Len(ret.value) : ret.value[i].enabled
  /\ (call.op = "getNextScheduledDate" /\ ret # NoResult /\ ~call.habit.enabled)
       => ret.value = [kind |-> "null"]

\* C7 witness: a list holding a disabled monday habit was filtered on a Sunday
\* and something else was due.
C7_Witness ==
  /\ call.op = "getHabitsDueToday" /\ ret # NoResult
  /\ \E i \in 1..Len(call.habits) :
       ~call.habits[i].enabled /\ call.habits[i].frequency = <<monday>>
  /\ LocalDay(call.date, call.tz) % 7 = 6
  /\ Len(ret.value) = 1

\* C8: a habit that validation accepts with a token that lower-cased and
\* trimmed is the next day's weekday is due, as if the token were lowercase.
C8_CaseInsensitiveTokens ==
  (/\ call.op = "isDueToday" /\ ret # NoResult /\ call.habit.enabled
   /\ validateSingleHabit(call.habit).valid
   /\ \E i \in 1..Len(call.habit.frequency) :
        trim(toLowerCase(call.habit.frequency[i]))
          = WeekdayOfDay(LocalDay(call.date, call.tz) + 1))
    => ret.value = TRUE

\* C9: the calculators throw 'Invalid time format', returning neither start
\* nor end, exactly when startTime or endTime is not a well-formed time.
C9_InvalidTimeFormatThrown ==
  (IsCalc /\ ret # NoResult) =>
    /\ (ret.kind = "throw" /\ ret.error = "Invalid time format")
         <=> ~(WellFormedTime(ArgStart) /\ WellFormedTime(ArgEnd))
    /\ ret.kind = "throw" => DOMAIN ret = {"kind", "error"}
    /\ ret.kind \in {"ok", "throw"}

\* C9 witness: the start time 25:00 made calculateTimeRangeFromParams throw.
C9_Witness ==
  /\ call.op = "calculateTimeRangeFromParams" /\ ret.kind = "throw"
  /\ ArgStart = T2500 /\ ArgEnd = T0800
  /\ ret.error = "Invalid time format"

\* The elements of habits for which isDueToday holds, kept one by one from
\* the front.
RECURSIVE KeepDue(_, _, _)
KeepDue(hs, date, tz) ==
  IF hs = <<>> THEN <<>>
  ELSE (IF isDueToday(Head(hs), date, tz) THEN <<Head(hs)>> ELSE <<>>)
         \o KeepDue(Tail(hs), date, tz)

\* C14: getHabitsDueToday returns exactly the subsequence of its input for
\* which isDueToday is true, in input order: nothing is added, dropped,
\* reordered or de-duplicated.
C14_OrderPreservingFilter ==
  (call.op = "getHabitsDueToday" /\ ret # NoResult) =>
    /\ ret.kind = "return"
    /\ ret.value = KeepDue(call.habits, call.date, call.tz)
    /\ Len(ret.value)
         = Cardinality({i \in 1..Len(call.habits) :
                          isDueToday(call.habits[i], call.date, call.tz)})

\* C14 witness: the same due habit was passed twice and is returned twice.
C14_Witness ==
  /\ call.op = "getHabitsDueToday" /\ ret # NoResult
  /\ Len(call.habits) = 2 /\ call.habits[1] = call.habits[2]
  /\ ret.value = call.habits

\* The distinct valid weekday tokens of a frequency array.
DistinctValidTokens(frequency) ==
  {frequency[i] : i \in 1..Len(frequency)}
    \cap {VALID_WEEKDAYS[i] : i \in 1..Len(VALID_WEEKDAYS)}

\* The habit with every repetition of an earlier token removed.
WithoutRepeats(habit) ==
  LET f == habit.frequency
      first == {i \in 1..Len(f) : \A j \in 1..(i - 1) : f[j] # f[i]}
      pos(i) == Cardinality({j \in first : j <= i})
  IN  [habit EXCEPT !.frequency =
         [k \in 1..Cardinality(first) |-> f[CHOOSE i \in first : pos(i) = k]]]

\* C15: duplicates in frequency are ignored: a habit with repeated tokens
\* gets the answer of the habit without the repetitions from isDueToday,
\* isDaily, isWeekdaysOnly and isWeekendsOnly; isDaily is true only when the
\* distinct valid tokens are all seven weekdays, and isWeekdaysOnly is true
\* whenever they are exactly monday..friday.
C15_DuplicatesIgnored ==
  /\ (call.op = "isDueToday" /\ ret # NoResult)
       => ret.value = isDueToday(WithoutRepeats(call.habit), call.date, call.tz)
  /\ (call.op = "isDaily" /\ ret # NoResult)
       => /\ ret.value = isDaily(WithoutRepeats(call.habit))
          /\ ret.value => Cardinality(DistinctValidTokens(call.habit.frequency)) = 7
  /\ (call.op = "isWeekdaysOnly" /\ ret # NoResult)
       => /\ ret.value = isWeekdaysOnly(WithoutRepeats(call.habit))
          /\ DistinctValidTokens(call.habit.frequency)
               = {monday, tuesday, wednesday, thursday, friday}
               => ret.value = TRUE
  /\ (call.op = "isWeekendsOnly" /\ ret # NoResult)
       => ret.value = isWeekendsOnly(WithoutRepeats(call.habit))

\* C16: the classification is consistent: isDaily implies seven scheduled
\* weekdays; isWeekdaysOnly implies that the scheduled set is exactly
\* monday..friday and that isDaily is false; at most one of isDaily,
\* isWeekdaysOnly and isWeekendsOnly is true.
C16_ClassificationConsistent ==
  (call.op \in {"isDaily", "isWeekdaysOnly", "isWeekendsOnly"}
     /\ ret # NoResult /\ ret.value = TRUE) =>
    LET h == call.habit
        valid == {i \in 1..Len(h.frequency) : includes(VALID_WEEKDAYS, h.frequency[i])}
    IN  /\ call.op = "isDaily"
             => /\ Len(getScheduledWeekdays(h)) = 7
                /\ Cardinality(valid) = 7
                /\ ~isWeekdaysOnly(h) /\ ~isWeekendsOnly(h)
        /\ call.op = "isWeekdaysOnly"
             => /\ DistinctValidTokens(h.frequency)
                     = {monday, tuesday, wednesday, thursday, friday}
                /\ ~isDaily(h) /\ ~isWeekendsOnly(h)
        /\ call.op = "isWeekendsOnly"
             => ~isDaily(h) /\ ~isWeekdaysOnly(h)

\* C16 witness: isWeekdaysOnly answered true for monday..friday.
C16_Witness ==
  /\ call.op = "isWeekdaysOnly" /\ ret # NoResult
  /\ call.habit.frequency = WeekdaysOnly
  /\ ret.value = TRUE

RECURSIVE KeepEntries(_, _)
KeepEntries(entries, want) ==
  IF entries = <<>> THEN <<>>
  ELSE (IF validateSingleHabit(Head(entries)).valid = want
        THEN <<Head(entries)>> ELSE <<>>)
         \o KeepEntries(Tail(entries), want)

\* C21: loadHabitConfig returns exactly the entries that pass
\* validateSingleHabit, unmodified and in their order, and throws 'No valid
\* habits found in configuration file' when none passes (the empty array
\* included); validHabits and invalidHabits partition the input array.
C21_LoaderKeepsValidEntries ==
  /\ (call.op = "loadHabitConfig" /\ ret # NoResult /\ call.file.kind = "array")
       => LET valid == KeepEntries(call.file.entries, TRUE)
          IN  IF valid = <<>>
              THEN ret = [kind |-> "throw",
                          error |-> "No valid habits found in configuration file"]
              ELSE ret = [kind |-> "ok", habits |-> valid]
  /\ (call.op = "validateHabitConfiguration" /\ ret # NoResult)
       => LET invalid == KeepEntries(call.rawConfig, FALSE)
          IN  /\ ret.value.validHabits = KeepEntries(call.rawConfig, TRUE)
              /\ Len(ret.value.invalidHabits) = Len(invalid)
              /\ \A i \in 1..Len(invalid) :
                   ret.value.invalidHabits[i].config = invalid[i]
              /\ Len(ret.value.validHabits) + Len(ret.value.invalidHabits)
                   = Len(call.rawConfig)

\* C21 witness: a file whose first entry is invalid and whose second is valid
\* was loaded and the second entry alone was returned.
C21_Witness ==
  /\ call.op = "loadHabitConfig" /\ ret.kind = "ok"
  /\ Len(call.file.entries) = 2
  /\ call.file.entries[1].startTime = T2500
  /\ ret.habits = <<call.file.entries[2]>>

C23_ArgumentsUnchanged ==
  [][call.op \in {"isDueToday", "getHabitsDueToday", "getNextScheduledDate",
                  "calculateTimeRange", "calculateTimeRangeFromParams"}
       => call' = call]_vars

\* C23 witness: getNextScheduledDate returned a date six days after a Date it
\* was given, having copied and moved it six times.
C23_Witness ==
  /\ call.op = "getNextScheduledDate" /\ ret # NoResult
  /\ ret.value.kind = "date"
  /\ LocalDay(ret.value.date, call.tz) = LocalDay(call.date, call.tz) + 6

\* C24: the TimeRange calculateTimeRange returns for a habit, a timezone and
\* a reference date the caller supplies is the one it returns for them at
\* any other wall-clock time of the call.
C24_ResultIndependentOfWallClock ==
  (call.op = "calculateTimeRange" /\ "date" \in DOMAIN call /\ ret # NoResult)
    => \A clock \in WallClocks :
         ret = calculateTimeRange(call.habit, call.timezone, <<call.date>>, clock)

\* C24 witness: a call with a supplied date returned a TimeRange at a wall
\* clock at which the call without the date returns another one.
C24_Witness ==
  /\ call.op = "calculateTimeRange" /\ "date" \in DOMAIN call
  /\ ret # NoResult /\ ret.kind = "ok"
  /\ calculateTimeRange(call.habit, call.timezone, <<>>, now) # ret

\* C25: with s and e the minutes of the day of startTime and endTime, the
\* range returned lasts e - s when e > s and e - s + 1440 minutes otherwise:
\* more than 0 and at most 24 hours, exactly 24 hours for equal times; start
\* is the instant computed for startTime, end the instant computed for
\* endTime or that instant plus exactly one day.
C25_DurationFromMinutesOfDay ==
  (IsCalc /\ ret.kind = "ok") =>
    LET s == MinuteOfDay(ArgStart)
        e == MinuteOfDay(ArgEnd)
        startDateTime == createDateTimeInTimezone(
                           ArgDate, parseTimeString(ArgStart), ArgTimezone)
        endDateTime == createDateTimeInTimezone(
                         ArgDate, parseTimeString(ArgEnd), ArgTimezone)
        duration == IsoInstant(ret.end) - IsoInstant(ret.start)
    IN  /\ duration = (IF e > s THEN e - s ELSE e - s + MinutesPerDay)
        /\ duration > 0 /\ duration <= 24 * 60
        /\ (s = e) => duration = 24 * 60
        /\ IsoInstant(ret.start) = startDateTime
        /\ IsoInstant(ret.end)
             = (IF e > s THEN endDateTime ELSE endDateTime + MinutesPerDay)

\* C25 witness: 9:00-09:00, one minute of the day written in two ways, on the
\* day Berlin changes its clocks: the range returned lasts 1440 minutes.
C25_Witness ==
  /\ IsCalc /\ ret.kind = "ok"
  /\ ArgStart = T900 /\ ArgEnd = T0900
  /\ ArgTimezone = "Europe/Berlin"
  /\ LocalDay(ArgDate, ArgTimezone) = BerlinDstDay
  /\ IsoInstant(ret.end) - IsoInstant(ret.start) = 24 * 60

C27_ThrowingTimeRangeSendsNothing ==
  (call.op = "createHabitFromTemplate" /\ ret # NoResult) =>
    LET timeRange == calculateTimeRange(call.habit, EffectiveTimezone, <<>>, now)
    IN  timeRange.kind = "throw" =>
          /\ ret.kind = "return"
          /\ ret.value.request = <<>>
          /\ ret.value.result.success = FALSE
          /\ ret.value.result.habitName = call.habit.name
          /\ ret.value.result.error.text = <<timeRange.error>>

\* C27 witness: TIMEZONE cannot be resolved, the habit's times are well formed
\* and Notion would have created the page; a failure was returned.
C27_Witness ==
  /\ call.op = "createHabitFromTemplate" /\ ret # NoResult
  /\ TIMEZONE = "Invalid/Timezone"
  /\ call.habit.startTime = T0700 /\ call.habit.endTime = T0800
  /\ call.outcome.kind = "created"
  /\ ret.value.request = <<>>
  /\ ~ret.value.result.success

\* C29: createHabitWithRetry makes a further attempt only after an attempt
\* that failed with an error handleNotionError classified as retryable (429,
\* 500, 502, 503, 504, ECONNRESET, ETIMEDOUT, ENOTFOUND), never after a
\* success or a failure classified as not retryable (400, 401, 403, 404), and
\* returns the result of its last attempt.
C29_RetryOnlyAfterRetryableFailure ==
  (call.op = "createHabitWithRetry" /\ ret # NoResult) =>
    LET n == ret.value.attempts
    IN  /\ \A k \in 1..(n - 1) :
             /\ call.outcomes[k].kind # "created"
             /\ canRetry(call.outcomes[k])
        /\ ret.value.result
             = createHabitFromTemplate(call.habit, EffectiveTimezone, now,
                                       call.outcomes[n], n).result

(***************************************************************************)
(* Properties of a run (checked under Spec)                                *)
(***************************************************************************)
\* C3: every page created for a habit starts (in the configured timezone) on
\* the day whose weekday isDueToday tested, so the weekday of its start date
\* is a member of that habit's frequency.
C3_CreatedOnTestedWeekday ==
  \A k \in 1..Len(pages) :
    LET startDay == LocalDay(IsoInstant(pages[k].start), EffectiveTimezone)
    IN  /\ startDay = LocalDay(dueDate, serverTz) + 1
        /\ includes(pages[k].habit.frequency, WeekdayOfDay(startDay))

\* C10: a failure of one due habit never cancels the others: every due habit
\* is attempted and gets exactly one CreateResult, in due-list order.
C10_EveryDueHabitGetsOneResult ==
  /\ pc = "creating" =>
       /\ Len(results) = idx - 1
       /\ Len(results) <= Len(dueHabits)
  /\ pc = "done" => Len(results) = Len(dueHabits)
  /\ \A i \in 1..Len(results) :
       /\ i <= Len(dueHabits)
       /\ results[i].habitName = dueHabits[i].name

\* C10 witness: a finished run of two due habits whose first habit failed and
\* whose second habit was created.
C10_Witness ==
  /\ pc = "done"
  /\ Len(dueHabits) = 2 /\ Len(results) = 2
  /\ dueHabits[1].name # dueHabits[2].name
  /\ ~results[1].success
  /\ results[2].success

\* A step of the retry loop: createHabitFromTemplate was called for
\* dueHabits[idx] and the loop went on to the next pass or to the next habit.
AttemptMade == pc = "creating" /\ (idx' # idx \/ attempt' # attempt)

\* C11: a run has one reference date: the TimeRange sent for a habit is the
\* one computed from the date the due decision of the run was taken on, also
\* when the clock passes midnight while the run is in progress.
C11_SingleReferenceDate ==
  \A k \in 1..Len(sent) :
    LET timeRange == calculateTimeRange(sent[k].habit, EffectiveTimezone, <<dueDate>>, now)
    IN  /\ sent[k].start = timeRange.start
        /\ sent[k].end = timeRange.end

\* The names of the loaded habits that were not due on the run's date.
NotDueNames ==
  LET notDue == SelectSeq(habits, LAMBDA h : ~isDueToday(h, dueDate, serverTz))
  IN  [i \in 1..Len(notDue) |-> notDue[i].name]

\* C12: in the result of a run that partially fails, created holds the
\* habits that succeeded, skipped holds the habits that were not due, errors
\* holds the error text of each failed habit, and the webhook response
\* reports the sizes of these lists.
C12_ResultListsOfPartialFailure ==
  (/\ pc = "done" /\ runResult # NoResult
   /\ \E i \in 1..Len(results) : results[i].success
   /\ \E i \in 1..Len(results) : ~results[i].success)
    => LET ok == SelectSeq(results, LAMBDA r : r.success)
           failed == SelectSeq(results, LAMBDA r : ~r.success)
       IN  /\ runResult.created = [i \in 1..Len(ok) |-> ok[i].entry]
           /\ runResult.skipped = NotDueNames
           /\ Len(runResult.errors) = Len(failed)
           /\ \A i \in 1..Len(failed) :
                runResult.errors[i].error = failed[i].error
           /\ response.status = 200
           /\ response.created = Len(runResult.created)
           /\ response.skipped = Len(runResult.skipped)
           /\ response.errors = runResult.errors

\* C13: every page-creation request names the habit's templateId, sets TAG to
\* "HABIT" and carries exactly the start and end of the TimeRange computed in
\* that attempt; the HabitEntry of a success records the same templateId,
\* start and end.
C13_RequestCarriesTemplateTagAndRange ==
  [][AttemptMade =>
       LET habit == dueHabits[idx]
           timeRange == calculateTimeRange(habit, EffectiveTimezone, <<>>, now)
       IN  /\ \A k \in 1..Len(sent') :
                /\ timeRange.kind = "ok"
                /\ sent'[k].template_id = habit.templateId
                /\ sent'[k].TAG = "HABIT"
                /\ sent'[k].start = timeRange.start
                /\ sent'[k].end = timeRange.end
           /\ (Len(results') > Len(results) /\ results'[Len(results')].success)
                => LET entry == results'[Len(results')].entry
                   IN  /\ Len(sent') = 1
                       /\ entry.templateUsed = sent'[1].template_id
                       /\ entry.timeRange = <<sent'[1].start, " - ", sent'[1].end>>
                       /\ pages' = Append(pages, sent'[1])]_vars

\* C13 witness: a request that Notion rejected was sent for the midnight-
\* crossing habit, after another habit's page had been created.
C13_Witness ==
  /\ pc = "creating"
  /\ Len(pages) = 1
  /\ Len(sent) = 1 /\ ~sent[1].accepted
  /\ sent[1].habit.startTime = T2330
  /\ sent[1].TAG = "HABIT"

\* C18: for each habit createHabitWithRetry makes at most 3 page-creation
\* attempts in total: an attempt is only made when fewer than 3 were made for
\* that habit before it (attempt counts the passes of the loop already made).
C18_AtMostThreeAttempts ==
  [][AttemptMade => attempt + 1 <= 3]_vars

\* The request last received is a POST /webhook.
IsWebhookPost ==
  /\ request # NoResult
  /\ request.method = "POST" /\ request.path = "/webhook"

\* The secrets the request last received carries, in its body or its query.
SuppliedSecrets == {request.body.secret, request.query.secret} \ {Undefined}

C20_SecretInQueryString ==
  (/\ IsWebhookPost
   /\ request.body.secret = Undefined
   /\ request.query.secret = Str(WEBHOOK_SECRET))
    => /\ pc \in {"creating", "done"}
       /\ response # NoResult => response.status = 200


\* C28: when the run has loaded its configuration, created and skipped
\* together have one entry per due habit, errors has no more entries than
\* skipped, and success is true exactly when errors is empty; when loading
\* the configuration fails, created and skipped are empty, errors has exactly
\* one entry and success is false.
C28_RunAccounting ==
  (pc = "done" /\ runResult # NoResult) =>
    IF habits # <<>>
    THEN /\ Len(runResult.created) + Len(runResult.skipped) = Len(dueHabits)
         /\ Len(runResult.errors) <= Len(runResult.skipped)
         /\ runResult.success = (runResult.errors = <<>>)
    ELSE /\ runResult.created = <<>>
         /\ runResult.skipped = <<>>
         /\ Len(runResult.errors) = 1
         /\ runResult.success = FALSE

\* C28 witness: a finished run of two due habits, one created and one failed
\* with an error whose message is empty: one created, one skipped, no errors.
C28_Witness ==
  /\ pc = "done" /\ runResult # NoResult
  /\ Len(dueHabits) = 2
  /\ Len(runResult.created) = 1
  /\ Len(runResult.skipped) = 1
  /\ runResult.errors = <<>>
  /\ runResult.success


(***************************************************************************)
(* Properties of the shutdown (checked under SpecShutdown)                 *)
(***************************************************************************)
\* A step in which a handler ran: an event was received.
EventReceived == proc'.signals # proc.signals

\* C30: whatever SIGTERM, SIGINT, uncaughtException and unhandledRejection
\* events arrive and in whatever order, isShuttingDown once set is never
\* cleared, a gracefulShutdown call made while it is set returns without
\* acting, and webhookServer.stop() is called at most once.
C30_ShutdownIdempotent ==
  [][/\ appState.isShuttingDown => appState'.isShuttingDown
     /\ (EventReceived /\ appState.isShuttingDown)
          => /\ appState' = appState
             /\ proc'.stopCalls = proc.stopCalls
             /\ proc'.shutdown = proc.shutdown
             /\ proc'.server = proc.server
             /\ proc'.exit = proc.exit
     /\ proc'.stopCalls <= 1]_vars

\* C30 witness: three events of three kinds were received by a process whose
\* server was listening; stop() was called once and the server is closed.
C30_Witness ==
  /\ Len(proc.signals) = 3
  /\ Cardinality({proc.signals[i] : i \in 1..3}) = 3
  /\ appState.isShuttingDown
  /\ proc.stopCalls = 1
  /\ proc.server = "none"
  /\ proc.shutdown = "waiting"

====
